---- MODULE Spec2Model ----
(***************************************************************************)
(* Minecraft status-query client: the two session implementations of the   *)
(* repository, connectToJavaServer (src/index.js, stream reader/writer     *)
(* with Promise.race) and pingJava (src/unnamed/part_000, node:net socket  *)
(* with event handlers), over a byte-level model of the wire format.       *)
(***************************************************************************)
EXTENDS Integers, Sequences, FiniteSets, TLC

(* ------------------------------ bounds --------------------------------- *)
\* the clock (Date.now / process.hrtime) advances at most this far
MaxNow == 2

(* ------------------------- 32-bit arithmetic --------------------------- *)
\* All values stay inside the signed 32-bit range, which is also the range
\* of the bitwise operators of the source.
Pow2(n) == 2 ^ n

\* (b & 0x7f) << (7 * size) as a signed 32-bit value, for size 0..4: at
\* size 4 only the low four bits survive and bit 31 is the sign
ShiftedGroup(byte, size) ==
  LET b7 == byte % 128
      n == b7 % 16
  IN IF size < 4 THEN b7 * Pow2(7 * size)
     ELSE (IF n >= 8 THEN n - 16 ELSE n) * Pow2(28)

(* ------------------------------ buffers -------------------------------- *)
\* buffer[i] with a 0-based index; outside the buffer JS yields undefined,
\* and (undefined & 0x7f) = (undefined & 0x80) = 0
ByteAt(buf, i) == IF i >= 0 /\ i < Len(buf) THEN buf[i + 1] ELSE 0

\* relative index of Uint8Array.prototype.slice / Buffer.prototype.slice
RelIndex(len, i) == IF i < 0 THEN (IF len + i < 0 THEN 0 ELSE len + i)
                    ELSE (IF i > len THEN len ELSE i)

Slice(buf, start, end) ==
  LET a == RelIndex(Len(buf), start)
      b == RelIndex(Len(buf), end)
  IN IF b > a THEN SubSeq(buf, a + 1, b) ELSE <<>>

SliceFrom(buf, start) == Slice(buf, start, Len(buf))

(* ------------------------------ VarInt --------------------------------- *)
\* an encoder whose termination test masks with 0xffffff00
RECURSIVE EncodeUnsignedWideMask(_)
EncodeUnsignedWideMask(u) ==
  IF u < 256 THEN <<u>>
  ELSE <<(u % 128) + 128>> \o EncodeUnsignedWideMask(u \div 128)

RECURSIVE EncodeUnsigned(_)
EncodeUnsigned(u) ==
  IF u < 128 THEN <<u>>
  ELSE <<(u % 128) + 128>> \o EncodeUnsigned(u \div 128)

\* (value & 0xffffff80) === 0 tests bits 7..31 and value >>>= 7 is the
\* unsigned shift: a negative value always continues, and its shifted value
\* is floor(value / 128) + 2^25
createVarInt(value) ==
  IF value >= 0 THEN EncodeUnsigned(value)
  ELSE <<(value % 128) + 128>> \o EncodeUnsigned((value \div 128) + Pow2(25))

\* a packet whose length prefix counts the payload only
createPacketPayloadLength(id, data) ==
  LET idBuffer == createVarInt(id)
      lengthBuffer == createVarInt(Len(data))
  IN lengthBuffer \o idBuffer \o data

createPacket(id, data) ==
  LET idBuffer == createVarInt(id)
      lengthBuffer == createVarInt(Len(idBuffer) + Len(data))
  IN lengthBuffer \o idBuffer \o data

\* a decoder that already throws on the fifth byte
RECURSIVE ReadVarIntFromShort(_, _, _, _)
ReadVarIntFromShort(buf, offset, size, acc) ==
  LET byte == ByteAt(buf, offset)
  IN IF size + 1 > 4 THEN [ok |-> FALSE, value |-> 0, offset |-> offset + 1]
     ELSE IF byte >= 128
       THEN ReadVarIntFromShort(buf, offset + 1, size + 1, acc + ShiftedGroup(byte, size))
     ELSE [ok |-> TRUE, value |-> acc + ShiftedGroup(byte, size), offset |-> offset + 1]

\* the do-while of readVarInt: the 7-bit groups of the first five bytes do
\* not overlap, so |= is addition; the sixth byte throws whatever it is
RECURSIVE ReadVarIntFrom(_, _, _, _)
ReadVarIntFrom(buf, offset, size, acc) ==
  LET byte == ByteAt(buf, offset)
  IN IF size + 1 > 5 THEN [ok |-> FALSE, value |-> 0, offset |-> offset + 1]
     ELSE IF byte >= 128
       THEN ReadVarIntFrom(buf, offset + 1, size + 1, acc + ShiftedGroup(byte, size))
     ELSE [ok |-> TRUE, value |-> acc + ShiftedGroup(byte, size), offset |-> offset + 1]

\* ok = FALSE stands for the thrown Error('VarInt is too big')
readVarInt(buffer, offset) == ReadVarIntFrom(buffer, offset, 0, 0)

(* ------------------------------- JSON ---------------------------------- *)
JsonEmptyObject == <<123, 125>>
JsonEmptyArray == <<91, 93>>
JsonMalformed == <<123, 123>>

\* JSON.parse(new TextDecoder().decode(bytes)) on the texts the peer sends
JSONParse(bytes) ==
  IF bytes = JsonEmptyObject THEN "{}"
  ELSE IF bytes = JsonEmptyArray THEN "[]"
  ELSE "SyntaxError"

(* --------------------------- client packets ---------------------------- *)
HostBytes == <<97>>
PortBytes == <<99, 221>>

handshakeData ==
  createVarInt(-1) \o createVarInt(Len(HostBytes)) \o HostBytes \o PortBytes
    \o createVarInt(1)

handshakePacket == createPacket(0, handshakeData)
statusRequestPacket == createPacket(0, <<>>)
pingData == <<1, 2, 3, 4, 5, 6, 7, 8>>
pingPacket == createPacket(1, pingData)
nodePingPayload == <<0, 0, 0, 0, 0, 0, 0, 0>>
nodePingPacket == createPacket(1, nodePingPayload)

(* ----------------------------- peer scripts ---------------------------- *)
StatusResponse(json) == createPacket(0, createVarInt(Len(json)) \o json)
Pong == createPacket(1, pingData)
UnknownPacket == createPacket(2, <<7>>)
OversizedVarInt == <<128, 128, 128, 128, 128, 0>>
ZeroLengthFrame == <<0>>
NegativeLengthFrame == createVarInt(-1)
\* a length prefix of -5 followed by one byte read as the packet id
BackwardLengthFrame == createVarInt(-5) \o <<2>>

GoodScripts ==
  { StatusResponse(JsonEmptyObject) \o Pong,
    StatusResponse(JsonEmptyArray) \o Pong }

ExpectedInfo(s) ==
  IF s = StatusResponse(JsonEmptyObject) \o Pong THEN "{}" ELSE "[]"

PeerScripts ==
  GoodScripts \cup
  { UnknownPacket \o StatusResponse(JsonEmptyObject) \o Pong,
    StatusResponse(JsonMalformed) \o Pong,
    Pong \o StatusResponse(JsonEmptyObject),
    StatusResponse(JsonEmptyObject) \o StatusResponse(JsonEmptyArray) \o Pong,
    OversizedVarInt,
    ZeroLengthFrame \o StatusResponse(JsonEmptyObject) \o Pong,
    NegativeLengthFrame \o UnknownPacket,
    BackwardLengthFrame,
    <<>> }

SocketErrors == {"ECONNREFUSED", "ENOTFOUND", "ECONNRESET"}

(* ------------------------------ outcomes ------------------------------- *)
Pending == [kind |-> "pending", info |-> "none", latency |-> {}, err |-> "none"]
Resolved(v) == [kind |-> "resolved", info |-> v.info, latency |-> v.latency, err |-> "none"]
Rejected(e) == [kind |-> "rejected", info |-> "none", latency |-> {}, err |-> e]
UndefinedValue == [info |-> "undefined", latency |-> {}]

\* a settlement that would replace an earlier one
SettleOverwrite(cur, new) == new

\* resolve/reject of a promise, and Promise.race: the first settlement wins
Settle(cur, new) == IF cur.kind = "pending" THEN new ELSE cur

\* a handler that leaves the timer armed
ClearTimerOmitted(t) == t

\* clearTimeout: no effect on a timer that has fired
ClearTimer(t) == IF t = "armed" THEN "cleared" ELSE t

\* pure holds the input and the result of the last application of one of
\* the pure functions (codec, framing, text rendering, error classification)
VARIABLES variant, script, pos, now, sent, buffer, pingStart, timer,
          outcome, pc, offset, resume, serverInfo, sockErr, pure

vars == <<variant, script, pos, now, sent, buffer, pingStart, timer,
          outcome, pc, offset, resume, serverInfo, sockErr, pure>>

sessionVars == <<variant, script, pos, now, sent, buffer, pingStart, timer,
                 outcome, pc, offset, resume, serverInfo, sockErr>>

PureIdle == [op |-> "idle"]

Init ==
  /\ variant \in {"worker", "node"}
  /\ script \in PeerScripts
  /\ pos = 0
  /\ now = 0
  /\ buffer = <<>>
  /\ pingStart = {}
  /\ outcome = Pending
  /\ offset = 0
  /\ resume = 0
  /\ serverInfo = UndefinedValue
  /\ sockErr = FALSE
  /\ pure = PureIdle
  /\ IF variant = "worker"
       THEN pc = "w_hs" /\ sent = <<handshakePacket>> /\ timer = "unarmed"
       ELSE pc = "n_connecting" /\ sent = <<>> /\ timer = "armed"

Tick ==
  /\ now < MaxNow
  /\ pc # "w_loop"
  /\ now' = now + 1
  /\ UNCHANGED <<pure, variant, script, pos, sent, buffer, pingStart, timer,
                 outcome, pc, offset, resume, serverInfo, sockErr>>

(* ============ connectToJavaServer (worker variant, src/index.js) ======== *)

\* if (buffer.length < newOffset + length) break;
FrameIncomplete(buflen, newOffset, length) == buflen < newOffset + length

\* one pass through the body of  while (offset < buffer.length) { try ... }
\* up to its next await, break or continue.  act = "break" covers the explicit
\* break and every exception caught by  catch (e) { break; }
WorkerIter(buf, off, info) ==
  LET r1 == readVarInt(buf, off)
      length == r1.value
      newOffset == r1.offset
      r2 == readVarInt(buf, newOffset)
      packetId == r2.value
      dataOffset == r2.offset
      r3 == readVarInt(buf, dataOffset)
      jsonLength == r3.value
      jsonOffset == r3.offset
      parsed == JSONParse(Slice(buf, jsonOffset, jsonOffset + jsonLength))
      brk == [act |-> "break", next |-> off, info |-> "none"]
  IN IF ~r1.ok THEN brk
     ELSE IF FrameIncomplete(Len(buf), newOffset, length) THEN brk
     ELSE IF ~r2.ok THEN brk
     ELSE IF packetId = 0 THEN
       (IF ~r3.ok \/ parsed = "SyntaxError" THEN brk
        ELSE [act |-> "status", next |-> newOffset + length, info |-> parsed])
     ELSE IF packetId = 1 THEN
       \* serverInfo.latency = ... throws a TypeError when serverInfo is undefined
       (IF info = "undefined" THEN brk
        ELSE [act |-> "pong", next |-> off, info |-> info])
     ELSE [act |-> "skip", next |-> newOffset + length, info |-> "none"]

\* await writer.write(handshakePacket) completes; the status request is written
W_HandshakeWritten ==
  /\ pc = "w_hs"
  /\ ~sockErr
  /\ sent' = Append(sent, statusRequestPacket)
  /\ pc' = "w_sr"
  /\ UNCHANGED <<pure, variant, script, pos, now, buffer, pingStart, timer,
                 outcome, offset, resume, serverInfo, sockErr>>

\* await writer.write(statusRequestPacket) completes: the timer is created,
\* readResponse starts its first reader.read() and Promise.race is entered
W_StatusRequestWritten ==
  /\ pc = "w_sr"
  /\ ~sockErr
  /\ timer' = "armed"
  /\ pc' = "w_read"
  /\ UNCHANGED <<pure, variant, script, pos, now, sent, buffer, pingStart,
                 outcome, offset, resume, serverInfo, sockErr>>

\* one of the first two writes rejects: the async function throws
W_WriteFail ==
  /\ pc \in {"w_hs", "w_sr"}
  /\ \E e \in SocketErrors : outcome' = Settle(outcome, Rejected(e))
  /\ sockErr' = TRUE
  /\ pc' = "w_done"
  /\ UNCHANGED <<pure, variant, script, pos, now, sent, buffer, pingStart, timer,
                 offset, resume, serverInfo>>

\* a read that drops the unparsed tail instead of appending to it
W_ReadDataNoConcat ==
  /\ pc = "w_read"
  /\ ~sockErr
  /\ \E n \in 1..(Len(script) - pos) :
       /\ buffer' = SubSeq(script, pos + 1, pos + n)
       /\ pos' = pos + n
  /\ offset' = 0
  /\ pc' = "w_loop"
  /\ UNCHANGED <<pure, variant, script, now, sent, pingStart, timer,
                 outcome, resume, serverInfo, sockErr>>

\* reader.read() yields a chunk: it is appended and the scan starts at 0
W_ReadData ==
  /\ pc = "w_read"
  /\ ~sockErr
  /\ \E n \in 1..(Len(script) - pos) :
       /\ buffer' = buffer \o SubSeq(script, pos + 1, pos + n)
       /\ pos' = pos + n
  /\ offset' = 0
  /\ pc' = "w_loop"
  /\ UNCHANGED <<pure, variant, script, now, sent, pingStart, timer,
                 outcome, resume, serverInfo, sockErr>>

\* reader.read() yields done: break, readResponse returns undefined
W_ReadDone ==
  /\ pc = "w_read"
  /\ ~sockErr
  /\ outcome' = Settle(outcome, Resolved(UndefinedValue))
  /\ pc' = "w_done"
  /\ UNCHANGED <<pure, variant, script, pos, now, sent, buffer, pingStart, timer,
                 offset, resume, serverInfo, sockErr>>

\* reader.read() rejects: readResponse rejects
W_ReadFail ==
  /\ pc = "w_read"
  /\ \E e \in SocketErrors : outcome' = Settle(outcome, Rejected(e))
  /\ sockErr' = TRUE
  /\ pc' = "w_done"
  /\ UNCHANGED <<pure, variant, script, pos, now, sent, buffer, pingStart, timer,
                 offset, resume, serverInfo>>

\* the scan stops (loop condition false, explicit break, or caught exception):
\* buffer = buffer.slice(offset) and the next reader.read() is awaited
W_LoopBreak ==
  /\ pc = "w_loop"
  /\ \/ ~(offset < Len(buffer))
     \/ WorkerIter(buffer, offset, serverInfo.info).act = "break"
  /\ buffer' = SliceFrom(buffer, offset)
  /\ pc' = "w_read"
  /\ UNCHANGED <<pure, variant, script, pos, now, sent, pingStart, timer,
                 outcome, offset, resume, serverInfo, sockErr>>

\* packetId === 0x00: parse, remember the time, write the ping, await it
W_LoopStatus ==
  /\ pc = "w_loop"
  /\ offset < Len(buffer)
  /\ LET it == WorkerIter(buffer, offset, serverInfo.info)
     IN /\ it.act = "status"
        /\ serverInfo' = [info |-> it.info, latency |-> {}]
        /\ resume' = it.next
  /\ pingStart' = {now}
  /\ sent' = Append(sent, pingPacket)
  /\ pc' = "w_ping"
  /\ UNCHANGED <<pure, variant, script, pos, now, buffer, timer,
                 outcome, offset, sockErr>>

\* await writer.write(pingPacket) completes: offset = newOffset + length
W_PingWritten ==
  /\ pc = "w_ping"
  /\ ~sockErr
  /\ offset' = resume
  /\ pc' = "w_loop"
  /\ UNCHANGED <<pure, variant, script, pos, now, sent, buffer, pingStart, timer,
                 outcome, resume, serverInfo, sockErr>>

\* await writer.write(pingPacket) rejects inside the try: catch, break
W_PingFail ==
  /\ pc = "w_ping"
  /\ sockErr' = TRUE
  /\ buffer' = SliceFrom(buffer, offset)
  /\ pc' = "w_read"
  /\ UNCHANGED <<pure, variant, script, pos, now, sent, pingStart, timer,
                 outcome, offset, resume, serverInfo>>

\* packetId === 0x01: latency is attached and writer.close() is awaited
W_LoopPong ==
  /\ pc = "w_loop"
  /\ offset < Len(buffer)
  /\ WorkerIter(buffer, offset, serverInfo.info).act = "pong"
  /\ serverInfo' = [serverInfo EXCEPT !.latency = {now - t : t \in pingStart}]
  /\ pc' = "w_close"
  /\ UNCHANGED <<pure, variant, script, pos, now, sent, buffer, pingStart, timer,
                 outcome, offset, resume, sockErr>>

\* await writer.close() completes: return serverInfo
W_Closed ==
  /\ pc = "w_close"
  /\ ~sockErr
  /\ outcome' = Settle(outcome, Resolved(serverInfo))
  /\ pc' = "w_done"
  /\ UNCHANGED <<pure, variant, script, pos, now, sent, buffer, pingStart, timer,
                 offset, resume, serverInfo, sockErr>>

\* await writer.close() rejects inside the try: catch, break
W_CloseFail ==
  /\ pc = "w_close"
  /\ sockErr' = TRUE
  /\ buffer' = SliceFrom(buffer, offset)
  /\ pc' = "w_read"
  /\ UNCHANGED <<pure, variant, script, pos, now, sent, pingStart, timer,
                 outcome, offset, resume, serverInfo>>

\* any other packet id: offset = newOffset + length
W_LoopSkip ==
  /\ pc = "w_loop"
  /\ offset < Len(buffer)
  /\ LET it == WorkerIter(buffer, offset, serverInfo.info)
     IN /\ it.act = "skip"
        /\ offset' = it.next
  /\ UNCHANGED <<pure, variant, script, pos, now, sent, buffer, pingStart, timer,
                 outcome, pc, resume, serverInfo, sockErr>>

\* setTimeout(() => reject(new Error('timeout')), 7000) fires; callbacks run
\* only while the async function is suspended at an await
W_TimerFire ==
  /\ variant = "worker"
  /\ timer = "armed"
  /\ pc # "w_loop"
  /\ timer' = "fired"
  /\ outcome' = Settle(outcome, Rejected("timeout"))
  /\ UNCHANGED <<pure, variant, script, pos, now, sent, buffer, pingStart,
                 pc, offset, resume, serverInfo, sockErr>>

(* ================ pingJava (node variant, src/unnamed/part_000) ========= *)

\* the body of the "data" handler on the concatenated buffer.
\*   act = "wait"   : return, or no branch taken (unknown packet id)
\*   act = "status" : status response parsed, buffer sliced, ping written
\*   act = "throw"  : an exception reaches  catch (e) { ...; reject(e) }
\* In the pong branch pingStart === undefined makes the BigInt subtraction
\* throw a TypeError; otherwise  info.latency = ...  refers to the const info
\* of the other block and throws a ReferenceError.
NodeHandle(buf, ps) ==
  LET r1 == readVarInt(buf, 0)
      len == r1.value
      off == r1.offset
      r2 == readVarInt(buf, off)
      pid == r2.value
      off2 == r2.offset
      r3 == readVarInt(buf, off2)
      jlen == r3.value
      off3 == r3.offset
      info == JSONParse(Slice(buf, off3, off3 + jlen))
      wait == [act |-> "wait", buffer |-> buf, err |-> "none"]
  IN IF ~r1.ok THEN [act |-> "throw", buffer |-> buf, err |-> "VarIntTooBig"]
     ELSE IF Len(buf) < off + len THEN wait
     ELSE IF ~r2.ok THEN [act |-> "throw", buffer |-> buf, err |-> "VarIntTooBig"]
     ELSE IF pid = 0 THEN
       (IF ~r3.ok THEN [act |-> "throw", buffer |-> buf, err |-> "VarIntTooBig"]
        ELSE IF info = "SyntaxError"
          THEN [act |-> "throw", buffer |-> buf, err |-> "SyntaxError"]
        ELSE [act |-> "status", buffer |-> SliceFrom(buf, off3 + jlen), err |-> "none"])
     ELSE IF pid = 1 THEN
       (IF ps = {} THEN [act |-> "throw", buffer |-> buf, err |-> "TypeError"]
        ELSE [act |-> "throw", buffer |-> buf, err |-> "ReferenceError"])
     ELSE wait

\* a connect callback that writes the status request ahead of the handshake
N_ConnectSwapped ==
  /\ pc = "n_connecting"
  /\ sent' = <<statusRequestPacket, handshakePacket>>
  /\ pc' = "n_open"
  /\ UNCHANGED <<pure, variant, script, pos, now, buffer, pingStart, timer,
                 outcome, offset, resume, serverInfo, sockErr>>

\* the connect callback: handshake and status request are written
N_Connect ==
  /\ pc = "n_connecting"
  /\ sent' = <<handshakePacket, statusRequestPacket>>
  /\ pc' = "n_open"
  /\ UNCHANGED <<pure, variant, script, pos, now, buffer, pingStart, timer,
                 outcome, offset, resume, serverInfo, sockErr>>

\* "data" event whose handler returns without settling or writing
N_DataWait ==
  /\ pc = "n_open"
  /\ \E n \in 1..(Len(script) - pos) :
       LET h == NodeHandle(buffer \o SubSeq(script, pos + 1, pos + n), pingStart)
       IN /\ h.act = "wait"
          /\ buffer' = h.buffer
          /\ pos' = pos + n
  /\ UNCHANGED <<pure, variant, script, now, sent, pingStart, timer,
                 outcome, pc, offset, resume, serverInfo, sockErr>>

\* "data" event whose handler parses a status response and writes the ping
N_DataStatus ==
  /\ pc = "n_open"
  /\ \E n \in 1..(Len(script) - pos) :
       LET h == NodeHandle(buffer \o SubSeq(script, pos + 1, pos + n), pingStart)
       IN /\ h.act = "status"
          /\ buffer' = h.buffer
          /\ pos' = pos + n
  /\ pingStart' = {now}
  /\ sent' = Append(sent, nodePingPacket)
  /\ UNCHANGED <<pure, variant, script, now, timer,
                 outcome, pc, offset, resume, serverInfo, sockErr>>

\* "data" event whose handler ends in the catch block
N_DataThrow ==
  /\ pc = "n_open"
  /\ \E n \in 1..(Len(script) - pos) :
       LET h == NodeHandle(buffer \o SubSeq(script, pos + 1, pos + n), pingStart)
       IN /\ h.act = "throw"
          /\ buffer' = h.buffer
          /\ pos' = pos + n
          /\ outcome' = Settle(outcome, Rejected(h.err))
  /\ timer' = ClearTimer(timer)
  /\ pc' = "n_destroyed"
  /\ UNCHANGED <<pure, variant, script, now, sent, pingStart,
                 offset, resume, serverInfo, sockErr>>

\* sock.on("error", err => { clearTimeout(timer); sock.destroy(); reject(err); })
N_SockError ==
  /\ pc \in {"n_connecting", "n_open"}
  /\ \E e \in SocketErrors : outcome' = Settle(outcome, Rejected(e))
  /\ timer' = ClearTimer(timer)
  /\ sockErr' = TRUE
  /\ pc' = "n_destroyed"
  /\ UNCHANGED <<pure, variant, script, pos, now, sent, buffer, pingStart,
                 offset, resume, serverInfo>>

\* sock.on("timeout", ...): the socket-level idle timeout
N_SockTimeout ==
  /\ pc \in {"n_connecting", "n_open"}
  /\ outcome' = Settle(outcome, Rejected("timeout"))
  /\ timer' = ClearTimer(timer)
  /\ pc' = "n_destroyed"
  /\ UNCHANGED <<pure, variant, script, pos, now, sent, buffer, pingStart,
                 offset, resume, serverInfo, sockErr>>

\* the overall timer: sock.destroy(); reject(e)
N_TimerFire ==
  /\ variant = "node"
  /\ timer = "armed"
  /\ timer' = "fired"
  /\ outcome' = Settle(outcome, Rejected("timeout"))
  /\ pc' = "n_destroyed"
  /\ UNCHANGED <<pure, variant, script, pos, now, sent, buffer, pingStart,
                 offset, resume, serverInfo, sockErr>>

(* ---------------------------- specification ---------------------------- *)
Next ==
  \/ Tick
  \/ W_HandshakeWritten
  \/ W_StatusRequestWritten
  \/ W_WriteFail
  \/ W_ReadData
  \/ W_ReadDone
  \/ W_ReadFail
  \/ W_LoopBreak
  \/ W_LoopStatus
  \/ W_PingWritten
  \/ W_PingFail
  \/ W_LoopPong
  \/ W_Closed
  \/ W_CloseFail
  \/ W_LoopSkip
  \/ W_TimerFire
  \/ N_Connect
  \/ N_DataWait
  \/ N_DataStatus
  \/ N_DataThrow
  \/ N_SockError
  \/ N_SockTimeout
  \/ N_TimerFire

Spec == Init /\ [][Next]_vars

\* the runtime fires an armed timer; everything else depends on the peer
\* and the synchronous packet scan runs on
FairSpec ==
  /\ Spec
  /\ WF_vars(W_TimerFire)
  /\ WF_vars(N_TimerFire)
  /\ WF_vars(W_LoopBreak \/ W_LoopStatus \/ W_LoopPong \/ W_LoopSkip)

TypeOK ==
  /\ variant \in {"worker", "node"}
  /\ script \in PeerScripts
  /\ pos \in 0..Len(script)
  /\ now \in 0..MaxNow
  /\ timer \in {"unarmed", "armed", "fired", "cleared"}
  /\ outcome.kind \in {"pending", "resolved", "rejected"}

(* ------------------------------- claims -------------------------------- *)
\* the id of the complete packet at the front of a buffer, as a set: empty
\* when the buffer does not start with a whole frame of at least one byte
FrontPacketId(buf) ==
  LET r1 == readVarInt(buf, 0)
      r2 == readVarInt(buf, r1.offset)
  IN IF r1.ok /\ r1.value >= 1 /\ Len(buf) >= r1.offset + r1.value /\ r2.ok
       THEN {r2.value} ELSE {}

\* the front packet is a status response whose JSON text does not parse
FrontMalformedStatus(buf) ==
  LET r1 == readVarInt(buf, 0)
      r2 == readVarInt(buf, r1.offset)
      r3 == readVarInt(buf, r2.offset)
  IN /\ FrontPacketId(buf) = {0}
     /\ r3.ok
     /\ JSONParse(Slice(buf, r3.offset, r3.offset + r3.value)) = "SyntaxError"

IsStatusWithLatency(o) ==
  /\ o.info \in {"{}", "[]"}
  /\ Cardinality(o.latency) = 1
  /\ \A l \in o.latency : l \in Nat

\* C1: pingJava, status response handled and then a complete pong at the
\* front of the buffer handled by a later data event, with no socket error
\* and no timeout: the session is resolved with the status object and a
\* non-negative integer latency.
C1_PongResolves ==
  (/\ variant = "node"
   /\ outcome.kind # "pending"
   /\ pingStart # {}
   /\ FrontPacketId(buffer) = {1}
   /\ ~sockErr
   /\ outcome.err # "timeout")
  => (outcome.kind = "resolved" /\ IsStatusWithLatency(outcome))

\* C2: connectToJavaServer against a peer sending a valid status response and
\* a pong: however the byte stream is split into reads, once every byte has
\* been read and scanned without a socket error the reader has returned the
\* object parsed from the JSON with a latency, and that is what the session
\* resolves with (unless the timeout won the race).
C2_SplitIndependent ==
  (/\ variant = "worker"
   /\ script \in GoodScripts
   /\ pos = Len(script)
   /\ ~sockErr
   /\ pc \in {"w_read", "w_done"})
  => (/\ pc = "w_done"
      /\ serverInfo.info = ExpectedInfo(script)
      /\ IsStatusWithLatency(serverInfo)
      /\ outcome \in {Resolved(serverInfo), Rejected("timeout")})

C2_Witness ==
  /\ variant = "worker"
  /\ script \in GoodScripts
  /\ outcome.kind = "resolved"
  /\ outcome.info = ExpectedInfo(script)
  /\ outcome.latency = {MaxNow}

\* C3: in both variants a settled outcome is never changed or replaced by a
\* later event.
C3_SettleOnce == [][outcome.kind # "pending" => outcome' = outcome]_vars

\* the overall timer fired after the session had already resolved
C3_Witness ==
  /\ outcome.kind = "resolved"
  /\ timer = "fired"

\* C4: connectToJavaServer performs no socket read or write once the session
\* has settled.
C4_NoIoAfterSettle ==
  [][(variant = "worker" /\ outcome.kind # "pending")
       => (sent' = sent /\ pos' = pos)]_vars

\* C5: connectToJavaServer against a peer that never sends a byte always
\* settles eventually, the overall timeout covering the session from
\* connection start.
C5_TimeoutCovers ==
  (variant = "worker" /\ script = <<>>) => <>(outcome.kind # "pending")

\* C6: pingJava, whenever the session has settled the socket has been
\* destroyed and the overall timer has fired or been cleared.
C6_SettledReleases ==
  (variant = "node" /\ outcome.kind # "pending")
  => (pc = "n_destroyed" /\ timer \in {"fired", "cleared"})

\* settled by a decode error in the data handler
C6_Witness ==
  /\ variant = "node"
  /\ outcome = Rejected("SyntaxError")
  /\ timer = "cleared"

\* C7: connectToJavaServer never waits for a further read with a complete
\* status response of unparseable JSON at the front of its buffer: the
\* session has failed with a non-timeout error.
C7_MalformedJsonFails ==
  (/\ variant = "worker"
   /\ pc = "w_read"
   /\ FrontMalformedStatus(buffer))
  => (outcome.kind = "rejected" /\ outcome.err # "timeout")

\* C8: whenever connectToJavaServer resolves, the value is a parsed status
\* object with a latency attached.
C8_ResolvedIsComplete ==
  (variant = "worker" /\ outcome.kind = "resolved")
  => IsStatusWithLatency(outcome)

\* C9: pingJava leaves no complete packet of unknown id at the front of the
\* session buffer when its data handler has run.
C9_UnknownSkipped ==
  (variant = "node" /\ pc = "n_open")
  => \A id \in FrontPacketId(buffer) : id \in {0, 1}

\* C10: pingJava processes every complete status response or pong of a data
\* event within that event: none is left at the front of the buffer.
C10_AllProcessedInEvent ==
  (variant = "node" /\ pc = "n_open")
  => \A id \in FrontPacketId(buffer) : id \notin {0, 1}

\* the positions of the ping packets among the client's writes
PingWrites == {i \in DOMAIN sent : sent[i] \in {pingPacket, nodePingPacket}}

\* C11: in either variant at most one ping packet is written per session: a
\* further packet with id 0x00 after the status response does not send a
\* second ping.
C11_SinglePing == Cardinality(PingWrites) <= 1

\* C12: in both variants the writes are the handshake, then the status
\* request, then pings only, a ping being written only once a status
\* response has been parsed; a pong is taken as completing the session (the
\* latency is attached, the session resolves with a status) only after a
\* ping was written.
C12_WriteOrder ==
  /\ Len(sent) >= 1 => sent[1] = handshakePacket
  /\ Len(sent) >= 2 => sent[2] = statusRequestPacket
  /\ \A i \in DOMAIN sent : i >= 3 => i \in PingWrites
  /\ PingWrites # {} =>
       (pingStart # {} /\ (variant = "worker" => serverInfo.info \in {"{}", "[]"}))
  /\ (serverInfo.latency # {} \/ pc = "w_close"
        \/ (outcome.kind = "resolved" /\ outcome.info # "undefined"))
       => PingWrites # {}

\* a pong that arrived before any status response has been scanned and did
\* not complete the session
C12_Witness ==
  /\ variant = "worker"
  /\ script = Pong \o StatusResponse(JsonEmptyObject)
  /\ pos = Len(script)
  /\ pc = "w_read"
  /\ FrontPacketId(buffer) = {1}
  /\ outcome.kind = "pending"
  /\ Len(sent) = 2

\* C19: a packet is dispatched on its id only when the buffer holds a whole
\* frame of at least one byte there, the id being decoded inside the frame: a
\* frame of declared length 0 is not taken for a packet with id 0x00.  In
\* pingJava the errors thrown by the id branches, in connectToJavaServer the
\* iterations that do not break, are the dispatches.
C19_IdInsideFrame ==
  /\ (variant = "node" /\ outcome.err \in {"SyntaxError", "TypeError", "ReferenceError"})
       => FrontPacketId(buffer) # {}
  /\ (variant = "worker" /\ pc = "w_loop" /\ offset >= 0 /\ offset < Len(buffer)
        /\ WorkerIter(buffer, offset, serverInfo.info).act # "break")
       => FrontPacketId(SliceFrom(buffer, offset)) # {}

\* C20: every iteration of the packet loop of connectToJavaServer that goes
\* on scanning continues from a strictly greater offset.
C20_OffsetIncreases ==
  (variant = "worker" /\ pc = "w_loop" /\ offset < Len(buffer))
  => LET it == WorkerIter(buffer, offset, serverInfo.info)
     IN it.act \in {"skip", "status"} => it.next > offset

(* ============================ pure functions ============================ *)
\* values 0..MaxSmallValue are encoded and decoded one by one
MaxSmallValue == 300

\* the largest 32-bit signed value, 2^31 - 1
MaxInt32 == (Pow2(30) - 1) + Pow2(30)

\* the first and last value of every encoded length
VarIntBoundaries ==
  { Pow2(7) - 1, Pow2(7), Pow2(14) - 1, Pow2(14), Pow2(21) - 1, Pow2(21),
    Pow2(28) - 1, Pow2(28), MaxInt32 }

VarIntInputs == (0..MaxSmallValue) \cup VarIntBoundaries \cup {-1}

PureSessionInit ==
  /\ variant = "none"
  /\ script = <<>>
  /\ pos = 0
  /\ now = 0
  /\ sent = <<>>
  /\ buffer = <<>>
  /\ pingStart = {}
  /\ timer = "unarmed"
  /\ outcome = Pending
  /\ pc = "idle"
  /\ offset = 0
  /\ resume = 0
  /\ serverInfo = UndefinedValue
  /\ sockErr = FALSE

PureInit == PureSessionInit /\ pure = PureIdle

\* readVarInt(createVarInt(v), 0)
ApplyVarInt ==
  /\ pure = PureIdle
  /\ \E v \in VarIntInputs :
       pure' = [op |-> "varint", in |-> v, bytes |-> createVarInt(v),
                out |-> readVarInt(createVarInt(v), 0)]
  /\ UNCHANGED sessionVars

\* C13: for every v in 0..2^31-1, readVarInt(createVarInt(v), 0) is
\* (v, length of createVarInt(v)), and createVarInt(v) has 1 to 5 bytes with
\* the continuation bit on every byte but the last.
C13_VarIntRoundTrip ==
  (pure.op = "varint" /\ pure.in >= 0)
  => (/\ pure.out.ok
      /\ pure.out.value = pure.in
      /\ pure.out.offset = Len(pure.bytes)
      /\ Len(pure.bytes) \in 1..5
      /\ \A i \in 1..Len(pure.bytes) :
           IF i < Len(pure.bytes) THEN pure.bytes[i] >= 128 ELSE pure.bytes[i] < 128)

\* the largest value, five bytes long
C13_Witness ==
  /\ pure.op = "varint"
  /\ pure.in = MaxInt32
  /\ Len(pure.bytes) = 5

FrameDecode(buf, off) ==
  LET r1 == readVarInt(buf, off)
      r2 == readVarInt(buf, r1.offset)
  IN [complete |-> r1.ok /\ ~FrameIncomplete(Len(buf), r1.offset, r1.value) /\ r2.ok,
      id |-> r2.value,
      next |-> r1.offset + r1.value]

\* payloads of 0..MaxPayloadLen bytes are framed one by one
MaxPayloadLen == 12

\* payload lengths around the step from a 1-byte to a 2-byte length prefix
PayloadLenBoundaries == {125, 126, 127, 128, 130}

Fill(n, b) == [i \in 1..n |-> b]

PayloadInputs ==
  { Fill(n, b) : n \in (0..MaxPayloadLen) \cup PayloadLenBoundaries, b \in {0, 255} }
    \cup { createVarInt(Len(JsonEmptyObject)) \o JsonEmptyObject }

PacketIdInputs == {0, 1, 2, 127, 128, 300, -1}

\* createPacket(id, data) fed to the receive side as the whole buffer
ApplyPacket ==
  /\ pure = PureIdle
  /\ \E id \in PacketIdInputs, data \in PayloadInputs :
       LET bytes == createPacket(id, data)
       IN pure' = [op |-> "packet", id |-> id, data |-> data, bytes |-> bytes,
                   frame |-> FrameDecode(bytes, 0),
                   iter |-> WorkerIter(bytes, 0, "undefined")]
  /\ UNCHANGED sessionVars

\* C15: createPacket(id, payload) is VarInt(L) ++ VarInt(id) ++ payload with
\* L = length of VarInt(id) + length of payload; decoding exactly these bytes
\* yields one complete frame with that id that ends at the end of the bytes,
\* so that nothing is left after it, and a packet the loop passes over or
\* parses is passed to that same offset.
C15_PacketRoundTrip ==
  (pure.op = "packet")
  => (/\ pure.bytes =
           createVarInt(Len(createVarInt(pure.id)) + Len(pure.data))
             \o createVarInt(pure.id) \o pure.data
      /\ pure.frame.complete
      /\ pure.frame.id = pure.id
      /\ pure.frame.next = Len(pure.bytes)
      /\ SliceFrom(pure.bytes, pure.frame.next) = <<>>
      /\ FrontPacketId(pure.bytes) = {pure.id}
      /\ pure.id \notin {0, 1} => pure.iter.act = "skip"
      /\ pure.iter.act \in {"skip", "status"} => pure.iter.next = Len(pure.bytes))

\* a two-byte id and a two-byte length prefix
C15_Witness ==
  /\ pure.op = "packet"
  /\ pure.id = 300
  /\ Len(pure.data) = 128
  /\ pure.iter.act = "skip"

(* --------------------------- text rendering --------------------------- *)
\* strings are sequences of one-character strings; SectionSign is the
\* formatting marker U+00A7
SectionSign == "$"

\* obj.name, undefined (falsy) for a property the object does not have
Prop(obj, name) == IF name \in DOMAIN obj THEN obj[name] ELSE FALSE

\* a colour table that always falls back to 'f'
getColorCodeFallback(colorName) == "f"

getColorCode(colorName) ==
  CASE colorName = "black" -> "0" [] colorName = "dark_blue" -> "1"
    [] colorName = "dark_green" -> "2" [] colorName = "dark_aqua" -> "3"
    [] colorName = "dark_red" -> "4" [] colorName = "dark_purple" -> "5"
    [] colorName = "gold" -> "6" [] colorName = "gray" -> "7"
    [] colorName = "dark_gray" -> "8" [] colorName = "blue" -> "9"
    [] colorName = "green" -> "a" [] colorName = "aqua" -> "b"
    [] colorName = "red" -> "c" [] colorName = "light_purple" -> "d"
    [] colorName = "yellow" -> "e" [] colorName = "white" -> "f"
    [] OTHER -> "f"

\* prevItem.color || prevItem.bold || prevItem.italic || prevItem.underline
\*   || prevItem.strikethrough || prevItem.obfuscated
prevHasFormatting(prevItem) ==
  \/ Prop(prevItem, "color") # ""
  \/ Prop(prevItem, "bold")
  \/ Prop(prevItem, "italic")
  \/ Prop(prevItem, "underline")
  \/ Prop(prevItem, "strikethrough")
  \/ Prop(prevItem, "obfuscated")

\* the formatting prefix and the literal text of a node
OwnText(obj) ==
  (IF obj.color # "" THEN <<SectionSign, getColorCode(obj.color)>> ELSE <<>>)
    \o (IF obj.bold THEN <<SectionSign, "l">> ELSE <<>>)
    \o (IF obj.italic THEN <<SectionSign, "o">> ELSE <<>>)
    \o (IF obj.underlined THEN <<SectionSign, "n">> ELSE <<>>)
    \o (IF obj.strikethrough THEN <<SectionSign, "m">> ELSE <<>>)
    \o (IF obj.obfuscated THEN <<SectionSign, "k">> ELSE <<>>)
    \o obj.text

RECURSIVE extractText(_)
RECURSIVE ExtraText(_, _)
\* the loop over obj.extra from the entry at position i (1-based)
ExtraText(extra, i) ==
  IF i > Len(extra) THEN <<>>
  ELSE (IF i > 1 /\ prevHasFormatting(extra[i - 1]) THEN <<SectionSign, "r">> ELSE <<>>)
         \o extractText(extra[i]) \o ExtraText(extra, i + 1)

extractText(obj) ==
  IF obj.isString THEN obj.text
  ELSE OwnText(obj) \o ExtraText(obj.extra, 1)

\* [0-9a-fklmnor] with the i flag
CodeChars ==
  {"0", "1", "2", "3", "4", "5", "6", "7", "8", "9",
   "a", "b", "c", "d", "e", "f", "k", "l", "m", "n", "o", "r",
   "A", "B", "C", "D", "E", "F", "K", "L", "M", "N", "O", "R"}

\* text.replace(/§[0-9a-fklmnor]/gi, '')
RECURSIVE removeColorCodes(_)
removeColorCodes(text) ==
  IF text = <<>> THEN <<>>
  ELSE IF text[1] = SectionSign /\ Len(text) >= 2 /\ text[2] \in CodeChars
    THEN removeColorCodes(SubSeq(text, 3, Len(text)))
  ELSE <<text[1]>> \o removeColorCodes(SubSeq(text, 2, Len(text)))

\* extra lists of up to MaxExtra entries are rendered
MaxExtra == 2

PlainNode(t) ==
  [isString |-> FALSE, color |-> "", bold |-> FALSE, italic |-> FALSE,
   underlined |-> FALSE, strikethrough |-> FALSE, obfuscated |-> FALSE,
   text |-> t, extra |-> <<>>]

StringLeaf(t) == [PlainNode(t) EXCEPT !.isString = TRUE]

\* entries of an extra list: a string, a node without flags, a node with
\* each single flag, and a node without flags that has a formatted child.
\* The text "x" is not a format code letter.
ExtraEntries ==
  { StringLeaf(<<"x">>),
    PlainNode(<<"x">>),
    [PlainNode(<<"x">>) EXCEPT !.color = "red"],
    [PlainNode(<<"x">>) EXCEPT !.bold = TRUE],
    [PlainNode(<<"x">>) EXCEPT !.italic = TRUE],
    [PlainNode(<<"x">>) EXCEPT !.underlined = TRUE],
    [PlainNode(<<"x">>) EXCEPT !.strikethrough = TRUE],
    [PlainNode(<<"x">>) EXCEPT !.obfuscated = TRUE],
    [PlainNode(<<"y">>) EXCEPT !.extra = <<[PlainNode(<<"z">>) EXCEPT !.bold = TRUE]>>] }

ExtraLists == UNION { [1..n -> ExtraEntries] : n \in 0..MaxExtra }

\* {text:"A", color:"red", extra:[{text:"B"}]}
RedAWithB ==
  [PlainNode(<<"A">>) EXCEPT !.color = "red", !.extra = <<PlainNode(<<"B">>)>>]

ComponentInputs ==
  { [PlainNode(<<"A">>) EXCEPT !.color = c, !.extra = e] :
      c \in {"", "red"}, e \in ExtraLists }
    \cup {RedAWithB}

\* description = extractText(...); description_clean = removeColorCodes(...)
ApplyRender ==
  /\ pure = PureIdle
  /\ \E c \in ComponentInputs :
       pure' = [op |-> "render", in |-> c, out |-> extractText(c),
                clean |-> removeColorCodes(extractText(c))]
  /\ UNCHANGED sessionVars

\* C16 (as claimed): extractText of {text:"A", color:"red", extra:[{text:"B"}]}
\* is the marker, c, A, the marker, r, B, and removeColorCodes of it is AB.
C16_ResetBeforeB ==
  (pure.op = "render" /\ pure.in = RedAWithB)
  => (/\ pure.out = <<SectionSign, "c", "A", SectionSign, "r", "B">>
      /\ pure.clean = <<"A", "B">>)

\* C16 (amended): extractText of that component is the marker, c, A, B, with
\* no reset code, B being the first entry of extra, and removeColorCodes of
\* it is AB.
C16_NoResetBeforeFirst ==
  (pure.op = "render" /\ pure.in = RedAWithB)
  => (/\ pure.out = <<SectionSign, "c", "A", "B">>
      /\ pure.clean = <<"A", "B">>)

C16_Witness ==
  /\ pure.op = "render"
  /\ pure.in = RedAWithB
  /\ Len(pure.out) = 4

\* the six flags of the component format
HasAnyFlag(item) ==
  \/ item.color # ""
  \/ item.bold
  \/ item.italic
  \/ item.underlined
  \/ item.strikethrough
  \/ item.obfuscated

\* the rendering with a reset before entry i > 0 exactly when entry i-1 has
\* one of the six flags
RECURSIVE RenderWithResets(_)
RECURSIVE ExtraWithResets(_, _)
ExtraWithResets(extra, i) ==
  IF i > Len(extra) THEN <<>>
  ELSE (IF i > 1 /\ HasAnyFlag(extra[i - 1]) THEN <<SectionSign, "r">> ELSE <<>>)
         \o RenderWithResets(extra[i]) \o ExtraWithResets(extra, i + 1)

RenderWithResets(obj) ==
  IF obj.isString THEN obj.text
  ELSE OwnText(obj) \o ExtraWithResets(obj.extra, 1)

\* C17: in extractText a reset code is emitted immediately before the
\* rendering of entry i > 0 of an extra list exactly when entry i-1 has at
\* least one of the flags color, bold, italic, underlined, strikethrough,
\* obfuscated, also when underlined is its only flag.
C17_ResetAfterAnyFlag ==
  (pure.op = "render") => pure.out = RenderWithResets(pure.in)

(* ------------------------- error classification ----------------------- *)
\* err.message.includes(token): a model message is the one token it carries
MessageIncludes(message, token) == message = token

\* an if-chain without the final else: the placeholder survives
WorkerClassifyNoElse(message) ==
  IF message = "timeout" THEN "timeout"
  ELSE IF MessageIncludes(message, "ENOTFOUND") THEN "invalid_domain"
  ELSE IF MessageIncludes(message, "ECONNREFUSED") THEN "connection_refused"
  ELSE "unknown_error"

\* the catch block of the route handler: the placeholder unknown_error is
\* replaced in every branch of the if-chain
WorkerClassify(message) ==
  IF message = "timeout" THEN "timeout"
  ELSE IF MessageIncludes(message, "ENOTFOUND") THEN "invalid_domain"
  ELSE IF MessageIncludes(message, "ECONNREFUSED") THEN "connection_refused"
  ELSE "offline"

\* err.code of what pingJava rejects with: TIMEOUT is set on the timeout
\* errors, socket errors carry their system code, thrown decode errors none
NodeErrCode(err) ==
  IF err = "timeout" THEN "TIMEOUT"
  ELSE IF err \in SocketErrors THEN err
  ELSE "undefined"

\* codeMap[err.code] || ["offline", ...]
NodeClassify(code) ==
  CASE code = "TIMEOUT" -> "timeout"
    [] code = "ENOTFOUND" -> "invalid_domain"
    [] code = "ECONNREFUSED" -> "connection_refused"
    [] OTHER -> "offline"

\* what the route handler answers for a settled session; reading
\* response.description of an undefined response throws a TypeError inside
\* the try block
HandlerReply(v, o) ==
  IF o.kind = "resolved"
    THEN (IF o.info = "undefined" THEN WorkerClassify("TypeError") ELSE "success")
  ELSE IF v = "worker" THEN WorkerClassify(o.err)
  ELSE NodeClassify(NodeErrCode(o.err))

\* C18: every failure of a status query is reported with a code of
\* {timeout, invalid_domain, connection_refused, offline}, never
\* unknown_error: timeout for a timeout, else invalid_domain for a failed
\* name resolution, else connection_refused for a refused connection, else
\* offline.
C18_ClosedErrorCodes ==
  (outcome.kind # "pending" /\ HandlerReply(variant, outcome) # "success")
  => (/\ HandlerReply(variant, outcome)
           \in {"timeout", "invalid_domain", "connection_refused", "offline"}
      /\ HandlerReply(variant, outcome) =
           (IF outcome.err = "timeout" THEN "timeout"
            ELSE IF outcome.err = "ENOTFOUND" THEN "invalid_domain"
            ELSE IF outcome.err = "ECONNREFUSED" THEN "connection_refused"
            ELSE "offline"))

\* a session that ended on a socket error other than the three named ones
C18_Witness ==
  /\ variant = "worker"
  /\ outcome = Rejected("ECONNRESET")
  /\ HandlerReply(variant, outcome) = "offline"

PureNext ==
  \/ ApplyVarInt
  \/ ApplyPacket
  \/ ApplyRender

PureSpec == PureInit /\ [][PureNext]_vars
====
